---- MODULE Spec2Model ----
(***************************************************************************)
(* RooBinIntegrator (roofit/roofitcore/src/RooBinIntegrator.cxx): the      *)
(* binned midpoint integrator, its two integrand-binding constructors, the *)
(* prototype registered with the factory, clone, setLimits, checkLimits    *)
(* and integral.                                                           *)
(*                                                                         *)
(* Double_t values are IEEE-754 binary64 values: a finite value is         *)
(* s * m * 2^e with m a natural number kept as a sequence of base-2^15     *)
(* limbs (least significant first), and every arithmetic operation of the  *)
(* code is the exact operation followed by rounding to 53 significant bits *)
(* (round to nearest, ties to even).  The exponent range is not bounded:   *)
(* the magnitudes the model's inputs produce stay far from 2^1024 and      *)
(* 2^-1022.  The sign of a zero is not kept.                               *)
(***************************************************************************)
EXTENDS Integers, Sequences, FiniteSets, TLC

(***************************************************************************)
(* Natural numbers of any size: limbs in base 2^15, least significant      *)
(* first, no leading zero limb; <<>> is 0.                                 *)
(***************************************************************************)
Base == 2^15

LimbBits == 15

MantBits == 53

Max(a, b) == IF a >= b THEN a ELSE b

Min(a, b) == IF a <= b THEN a ELSE b

Limb(a, i) == IF i <= Len(a) THEN a[i] ELSE 0

RECURSIVE LTrim(_)
LTrim(a) ==
  IF a = <<>> THEN <<>>
  ELSE IF a[Len(a)] = 0 THEN LTrim(SubSeq(a, 1, Len(a) - 1))
  ELSE a

RECURSIVE LFromNat(_)
LFromNat(n) == IF n = 0 THEN <<>> ELSE <<n % Base>> \o LFromNat(n \div Base)

RECURSIVE LAddC(_, _, _, _, _)
LAddC(a, b, i, c, acc) ==
  IF i > Max(Len(a), Len(b))
  THEN (IF c > 0 THEN Append(acc, c) ELSE acc)
  ELSE LET s == Limb(a, i) + Limb(b, i) + c
       IN  LAddC(a, b, i + 1, s \div Base, Append(acc, s % Base))

LAdd(a, b) == LAddC(a, b, 1, 0, <<>>)

RECURSIVE LSubB(_, _, _, _, _)
LSubB(a, b, i, br, acc) ==
  IF i > Len(a)
  THEN LTrim(acc)
  ELSE LET d == a[i] - Limb(b, i) - br
       IN  IF d < 0
           THEN LSubB(a, b, i + 1, 1, Append(acc, d + Base))
           ELSE LSubB(a, b, i + 1, 0, Append(acc, d))

\* a - b for a >= b
LSub(a, b) == LSubB(a, b, 1, 0, <<>>)

RECURSIVE LCmpFrom(_, _, _)
LCmpFrom(a, b, i) ==
  IF i = 0 THEN 0
  ELSE IF a[i] > b[i] THEN 1
  ELSE IF a[i] < b[i] THEN -1
  ELSE LCmpFrom(a, b, i - 1)

\* -1, 0 or 1 as a < b, a = b or a > b
LCmp(a, b) ==
  IF Len(a) > Len(b) THEN 1
  ELSE IF Len(a) < Len(b) THEN -1
  ELSE LCmpFrom(a, b, Len(a))

RECURSIVE LMulSmallC(_, _, _, _, _)
LMulSmallC(a, k, i, c, acc) ==
  IF i > Len(a)
  THEN (IF c > 0 THEN Append(acc, c) ELSE acc)
  ELSE LET p == a[i] * k + c
       IN  LMulSmallC(a, k, i + 1, p \div Base, Append(acc, p % Base))

\* a * k for 0 <= k < Base
LMulSmall(a, k) == IF k = 0 THEN <<>> ELSE LMulSmallC(a, k, 1, 0, <<>>)

Zeros(n) == [i \in 1..n |-> 0]

RECURSIVE LMulFrom(_, _, _, _)
LMulFrom(a, b, i, acc) ==
  IF i > Len(b) THEN acc
  ELSE LMulFrom(a, b, i + 1,
                LAdd(acc, IF b[i] = 0 THEN <<>>
                          ELSE Zeros(i - 1) \o LMulSmall(a, b[i])))

LMul(a, b) == IF a = <<>> \/ b = <<>> THEN <<>> ELSE LMulFrom(a, b, 1, <<>>)

RECURSIVE LDivSmallR(_, _, _, _, _)
LDivSmallR(a, k, i, r, acc) ==
  IF i = 0 THEN [q |-> LTrim(acc), r |-> r]
  ELSE LET cur == r * Base + a[i]
       IN  LDivSmallR(a, k, i - 1, cur % k, <<cur \div k>> \o acc)

\* quotient and remainder of a by k, for 0 < k < Base
LDivSmall(a, k) == LDivSmallR(a, k, Len(a), 0, <<>>)

RECURSIVE BitLenSmall(_)
BitLenSmall(n) == IF n = 0 THEN 0 ELSE 1 + BitLenSmall(n \div 2)

LBitLen(a) ==
  IF a = <<>> THEN 0 ELSE LimbBits * (Len(a) - 1) + BitLenSmall(a[Len(a)])

\* a * 2^s
LShl(a, s) ==
  IF a = <<>> \/ s = 0 THEN a
  ELSE IF s % LimbBits = 0 THEN Zeros(s \div LimbBits) \o a
  ELSE LMulSmall(Zeros(s \div LimbBits) \o a, 2^(s % LimbBits))

\* floor(a / 2^s)
LShr(a, s) ==
  IF s = 0 THEN a
  ELSE IF s \div LimbBits >= Len(a) THEN <<>>
  ELSE IF s % LimbBits = 0 THEN SubSeq(a, s \div LimbBits + 1, Len(a))
  ELSE LDivSmall(SubSeq(a, s \div LimbBits + 1, Len(a)), 2^(s % LimbBits)).q

\* bit number i (0 is the least significant) of a
LBit(a, i) == (Limb(a, i \div LimbBits + 1) \div 2^(i % LimbBits)) % 2

\* a mod 2^s # 0
LLowNonZero(a, s) ==
  \/ \E i \in 1..Min(Len(a), s \div LimbBits) : a[i] # 0
  \/ Limb(a, s \div LimbBits + 1) % 2^(s % LimbBits) # 0

RECURSIVE TrailingZerosSmall(_)
TrailingZerosSmall(n) == IF n % 2 = 1 THEN 0 ELSE 1 + TrailingZerosSmall(n \div 2)

RECURSIVE LTrailingZerosFrom(_, _)
LTrailingZerosFrom(a, i) ==
  IF a[i] = 0 THEN LimbBits + LTrailingZerosFrom(a, i + 1)
  ELSE TrailingZerosSmall(a[i])

\* the number of trailing zero bits of a # 0
LTrailingZeros(a) == LTrailingZerosFrom(a, 1)

(***************************************************************************)
(* Double_t.  k is "fin", "inf" or "nan"; a finite value is s * m * 2^e    *)
(* with m odd, or m = <<>>, s = 1, e = 0 for zero, so that equal values    *)
(* are equal records.                                                      *)
(***************************************************************************)
NaN == [k |-> "nan", s |-> 1, m |-> <<>>, e |-> 0]

Inf(s) == [k |-> "inf", s |-> s, m |-> <<>>, e |-> 0]

Zero == [k |-> "fin", s |-> 1, m |-> <<>>, e |-> 0]

\* the value s * m * 2^e, m any natural number
Norm(s, m, e) ==
  IF m = <<>> THEN Zero
  ELSE IF m[1] % 2 = 1 THEN [k |-> "fin", s |-> s, m |-> m, e |-> e]
  ELSE LET tz == LTrailingZeros(m)
       IN  [k |-> "fin", s |-> s, m |-> LShr(m, tz), e |-> e + tz]

IsZero(x) == x.k = "fin" /\ x.m = <<>>

DNeg(x) == IF x.k = "nan" \/ IsZero(x) THEN x ELSE [x EXCEPT !.s = -x.s]

\* an int converted to double (exact below 2^53)
IntToDouble(n) ==
  IF n >= 0 THEN Norm(1, LFromNat(n), 0) ELSE Norm(-1, LFromNat(-n), 0)

\* exact sum of two finite values
XAdd(x, y) ==
  IF IsZero(x) THEN y
  ELSE IF IsZero(y) THEN x
  ELSE LET e  == Min(x.e, y.e)
           mx == LShl(x.m, x.e - e)
           my == LShl(y.m, y.e - e)
           c  == LCmp(mx, my)
       IN  IF x.s = y.s THEN Norm(x.s, LAdd(mx, my), e)
           ELSE IF c = 0 THEN Zero
           ELSE IF c > 0 THEN Norm(x.s, LSub(mx, my), e)
           ELSE Norm(y.s, LSub(my, mx), e)

\* exact product of two finite values
XMul(x, y) ==
  IF IsZero(x) \/ IsZero(y) THEN Zero
  ELSE Norm(x.s * y.s, LMul(x.m, y.m), x.e + y.e)

\* -1, 0 or 1: the sign of a finite value
Sgn(x) == IF IsZero(x) THEN 0 ELSE x.s

\* a finite value rounded to MantBits significant bits, to nearest, ties to even
Round(x) ==
  LET len == LBitLen(x.m)
  IN  IF len <= MantBits THEN x
      ELSE LET sh == len - MantBits
               q  == LShr(x.m, sh)
               up == /\ LBit(x.m, sh - 1) = 1
                     /\ (LLowNonZero(x.m, sh - 1) \/ LBit(q, 0) = 1)
           IN  Norm(x.s, IF up THEN LAdd(q, <<1>>) ELSE q, x.e + sh)

\* x + y
DAdd(x, y) ==
  IF x.k = "nan" \/ y.k = "nan" THEN NaN
  ELSE IF x.k = "inf"
       THEN (IF y.k = "inf" /\ y.s # x.s THEN NaN ELSE x)
  ELSE IF y.k = "inf" THEN y
  ELSE Round(XAdd(x, y))

\* x - y
DSub(x, y) == DAdd(x, DNeg(y))

\* x * y
DMul(x, y) ==
  IF x.k = "nan" \/ y.k = "nan" THEN NaN
  ELSE IF x.k = "inf" \/ y.k = "inf"
       THEN (IF IsZero(x) \/ IsZero(y) THEN NaN ELSE Inf(x.s * y.s))
  ELSE Round(XMul(x, y))

\* x / n for an int n converted to double, |n| < Base
DDivInt(x, n) ==
  IF x.k = "nan" THEN NaN
  ELSE IF n = 0
       THEN (IF IsZero(x) THEN NaN ELSE Inf(x.s))
  ELSE LET sn == IF n < 0 THEN -1 ELSE 1
           an == IF n < 0 THEN -n ELSE n
       IN  IF x.k = "inf" THEN Inf(x.s * sn)
           ELSE IF IsZero(x) THEN Zero
           ELSE LET sh == Max(0, MantBits + 2 + BitLenSmall(an) - LBitLen(x.m))
                    d  == LDivSmall(LShl(x.m, sh), an)
                    \* the quotient with a sticky bit below it
                    qs == LAdd(LShl(d.q, 1), IF d.r # 0 THEN <<1>> ELSE <<>>)
                IN  Round(Norm(x.s * sn, qs, x.e - sh - 1))

\* x < y
DLt(x, y) ==
  IF x.k = "nan" \/ y.k = "nan" THEN FALSE
  ELSE IF x.k = "inf" THEN x.s = -1 /\ ~(y.k = "inf" /\ y.s = -1)
  ELSE IF y.k = "inf" THEN y.s = 1
  ELSE Sgn(XAdd(x, DNeg(y))) < 0

\* x <= y
DLe(x, y) ==
  IF x.k = "nan" \/ y.k = "nan" THEN FALSE
  ELSE x = y \/ DLt(x, y)


(***************************************************************************)
(* The integrand (RooAbsFunc): its dimension, and per dimension its        *)
(* limits and its bin boundaries (has = FALSE: binBoundaries returns a     *)
(* null pointer).  f is what it computes: the constant c, or the sum of    *)
(* the coordinates.  The integrand is valid (the constructors assert it).  *)
(***************************************************************************)
D(n) == IntToDouble(n)

Ints(s) == [i \in 1..Len(s) |-> D(s[i])]

Axis(lo, hi, has, b) == [min |-> lo, max |-> hi, has |-> has, b |-> b]

\* the binning [0,1,3,7] over [0,7]
AxisExplicit == Axis(D(0), D(7), TRUE, Ints(<<0, 1, 3, 7>>))

\* 1./3
Third == DDivInt(D(1), 3)

\* the limit pairs of the integrands without a binning of their own
LimitPairs ==
  { <<D(0), D(1)>>, <<D(0), Third>>, <<D(1), D(0)>>, <<D(1), D(1)>>,
    <<D(0), Inf(1)>> }

Axes == {AxisExplicit} \cup {Axis(p[1], p[2], FALSE, <<>>) : p \in LimitPairs}

MaxDim == 4

MaxBins == 2

MaxMoves == 1

\* numBins of RooBinIntegrator(const RooAbsFunc&)
DefaultNumBins == 100

\* the axes of the integrands of dimension d
AxesFor(d) ==
  IF d <= 1 THEN Axes
  ELSE IF d <= 3 THEN {AxisExplicit, Axis(D(0), D(1), FALSE, <<>>)}
  ELSE {AxisExplicit}

Functions == {[kind |-> "const", c |-> 7], [kind |-> "sum", c |-> 0]}

\* the functions of the integrands of dimension d: the sum of the
\* coordinates is integrated in one and in two dimensions
FunctionsFor(d) ==
  IF d \in {1, 2} THEN Functions ELSE {f \in Functions : f.kind = "const"}

Integrands ==
  UNION { { [dim |-> d, ax |-> a, f |-> f] :
              a \in [1..d -> AxesFor(d)], f \in FunctionsFor(d) }
          : d \in 0..MaxDim }

\* the numBins values of the options bundle
ConfigNumBins == (-1)..MaxBins

\* the arguments of setLimits
LimitArgs == {<<D(0), D(1)>>, <<D(1), D(0)>>}

\* the limits the integrand's limits change to
ChangePairs == {<<D(1), D(0)>>, <<D(0), D(7)>>}

getDimension(fn) == fn.dim

getMinLimit(fn, i) == fn.ax[i].min

getMaxLimit(fn, i) == fn.ax[i].max

RECURSIVE SumCoords(_, _, _)
SumCoords(x, i, acc) ==
  IF i > Len(x) THEN acc ELSE SumCoords(x, i + 1, DAdd(acc, x[i]))

\* the integrand's value at the coordinates x: a pure function of x
Evaluate(fn, x) ==
  IF fn.f.kind = "const" THEN D(fn.f.c) ELSE SumCoords(x, 1, Zero)

(***************************************************************************)
(* The integrator object.                                                  *)
(***************************************************************************)
\* the content of new Double_t[n] before it is written
Uninit == [k |-> "uninit", s |-> 1, m |-> <<>>, e |-> 0]

NoObject ==
  [exists |-> FALSE, bound |-> FALSE, valid |-> FALSE,
   useIntegrandLimits |-> FALSE, numBins |-> 0,
   xmin |-> <<>>, xmax |-> <<>>, binb |-> <<>>, x |-> <<>>]

\* RooBinIntegrator(): no integrand, not valid
DefaultCtor ==
  [exists |-> TRUE, bound |-> FALSE, valid |-> FALSE,
   useIntegrandLimits |-> FALSE, numBins |-> 0,
   xmin |-> <<>>, xmax |-> <<>>, binb |-> <<>>, x |-> <<>>]

\* RooAbsIntegrator::isValid()
isValid(o) == o.valid

\* RooNumber::isInfinite
isInfinite(x) == x.k = "inf"

Warn(i) == [lvl |-> "W", dim |-> i]

Err(i) == [lvl |-> "E", dim |-> i]

\* a fault: the loop stops at j < _numBins
UniformBoundariesShort(lo, hi, n) ==
  [j1 \in 1..n |-> DAdd(lo, DDivInt(DMul(D(j1 - 1), DSub(hi, lo)), n))] \o <<>>

\* for (j = 0; j <= _numBins; j++) push_back(xmin + j*(xmax - xmin)/_numBins)
UniformBoundaries(lo, hi, n) ==
  [j1 \in 1..(n + 1) |-> DAdd(lo, DDivInt(DMul(D(j1 - 1), DSub(hi, lo)), n))] \o <<>>

\* a fault: the binning of the integrand is not looked at
BinRowUniform(axis, lo, hi, n) == UniformBoundaries(lo, hi, n)

\* the row of the bin table of one dimension
BinRow(axis, lo, hi, n) ==
  IF axis.has THEN axis.b ELSE UniformBoundaries(lo, hi, n)

\* the warnings of the dimensions without a binning, in order
RECURSIVE BinWarnings(_, _)
BinWarnings(fn, i) ==
  IF i > getDimension(fn) THEN <<>>
  ELSE (IF fn.ax[i].has THEN <<>> ELSE <<Warn(i)>>) \o BinWarnings(fn, i + 1)

RECURSIVE FirstBad(_, _, _)
\* the first dimension whose limits checkLimits refuses, 0 when there is none
FirstBad(o, d, i) ==
  IF i > d THEN 0
  ELSE IF DLe(o.xmax[i], o.xmin[i]) \/ isInfinite(o.xmin[i]) \/ isInfinite(o.xmax[i])
       THEN i
  ELSE FirstBad(o, d, i + 1)

\* the limits checkLimits checks: the integrand's when they are authoritative
Refreshed(o, fn) ==
  IF o.useIntegrandLimits
  THEN [o EXCEPT !.xmin = [i \in 1..getDimension(fn) |-> getMinLimit(fn, i)],
                 !.xmax = [i \in 1..getDimension(fn) |-> getMaxLimit(fn, i)]]
  ELSE o

\* what checkLimits() finds of the object r whose limits are refreshed:
\* the first refused dimension decides what it returns and reports
Checked(r, bad) ==
  [o |-> r, ret |-> (bad = 0),
   diag |-> IF bad # 0 /\ DLe(r.xmax[bad], r.xmin[bad])
            THEN <<Err(bad)>> ELSE <<>>,
   crash |-> FALSE]

\* the outcome of a call whose behaviour is undefined (a null integrand, a
\* write or read past the end of a vector): nothing is said of the object,
\* of the result or of anything that follows
Undefined(o) == [o |-> o, ret |-> FALSE, diag |-> <<>>, crash |-> TRUE]

\* the checks of checkLimits() on the object r, its limits refreshed
CheckRefreshed(r, d) ==
  IF Len(r.xmin) < d \/ Len(r.xmax) < d THEN Undefined(r)
  ELSE Checked(r, FirstBad(r, d, 1))

\* the bin table made again from the limits of the object
Rebinned(o, fn) ==
  [o EXCEPT !.binb = [i \in 1..Len(o.binb) |->
                        BinRow(fn.ax[i], o.xmin[i], o.xmax[i], o.numBins)]]

\* a fault: checkLimits() makes the bin table again from the limits it read
CheckLimitsRebin(o, fn) ==
  IF ~o.bound THEN Undefined(o)
  ELSE CheckRefreshed(Rebinned(Refreshed(o, fn), fn), getDimension(fn))

\* checkLimits(): the object after it, what it returns and what it reports
CheckLimits(o, fn) ==
  IF ~o.bound THEN Undefined(o)
  ELSE CheckRefreshed(Refreshed(o, fn), getDimension(fn))

\* the object the two binding constructors build before they call checkLimits
Bind(fn, n) ==
  [exists |-> TRUE, bound |-> TRUE, valid |-> TRUE,
   useIntegrandLimits |-> TRUE, numBins |-> n,
   xmin |-> [i \in 1..getDimension(fn) |-> getMinLimit(fn, i)],
   xmax |-> [i \in 1..getDimension(fn) |-> getMaxLimit(fn, i)],
   binb |-> [i \in 1..getDimension(fn) |->
               BinRow(fn.ax[i], getMinLimit(fn, i), getMaxLimit(fn, i), n)],
   x    |-> [i \in 1..getDimension(fn) |-> Uninit]]

\* the warnings of the constructor come before what checkLimits() reports
AfterWarnings(fn, r) == [r EXCEPT !.diag = BinWarnings(fn, 1) \o @]

\* RooBinIntegrator(function): the object checkLimits() leaves, what it
\* returned (the constructor drops it), and the diagnostics
Ctor1(fn) == AfterWarnings(fn, CheckLimits(Bind(fn, DefaultNumBins), fn))

\* RooBinIntegrator(function, config), numBins read from the config
Ctor2(fn, n) == AfterWarnings(fn, CheckLimits(Bind(fn, n), fn))

\* clone(function, config): new RooBinIntegrator(function, config)
Clone(o, fn, n) == Ctor2(fn, n)

\* _xmin[0]= *xmin; _xmax[0]= *xmax; return checkLimits();
Override(o, fn, a, b) ==
  IF Len(o.xmin) = 0 \/ Len(o.xmax) = 0 THEN Undefined(o)
  ELSE CheckLimits([o EXCEPT !.xmin[1] = a, !.xmax[1] = b], fn)

\* a fault: the limits are overridden whatever _useIntegrandLimits is
SetLimitsUnguarded(o, fn, a, b) == Override(o, fn, a, b)

\* setLimits(xmin, xmax)
SetLimits(o, fn, a, b) ==
  IF o.useIntegrandLimits
  THEN [o |-> o, ret |-> FALSE, diag |-> <<Err(0)>>, crash |-> FALSE]
  ELSE Override(o, fn, a, b)


(***************************************************************************)
(* integral().  The state of the summation is the running sum, the         *)
(* coordinate buffer _x, the coordinates the integrand was evaluated at,   *)
(* in order, whether a bin width, a product or the running sum was         *)
(* rounded, and whether a read past the end of a row ended the process.    *)
(***************************************************************************)
\* a fault: the sum starts from what the last call left in the buffer
InitialSumStale(o) ==
  IF Len(o.x) > 0 /\ o.x[1].k = "fin" THEN o.x[1] ELSE Zero

\* double sum = 0.
InitialSum(o) == Zero

Finite(x) == x.k = "fin"

\* rounding leaves the finite value x as it is
Representable(x) == LBitLen(x.m) <= MantBits

\* x + y is not rounded
ExactAdd(x, y) == Finite(x) /\ Finite(y) /\ Representable(XAdd(x, y))

\* x * y is not rounded
ExactMul(x, y) ==
  /\ Finite(x)
  /\ Finite(y)
  /\ \/ LBitLen(x.m) + LBitLen(y.m) <= MantBits
     \/ /\ LBitLen(x.m) + LBitLen(y.m) = MantBits + 1
        /\ Representable(XMul(x, y))

\* (xhi + xlo)/2.
Center(hi, lo) == DDivInt(DAdd(hi, lo), 2)

\* a fault: the difference the wrong way round
WidthReversed(hi, lo) == DSub(lo, hi)

\* xhi - xlo
Width(hi, lo) == DSub(hi, lo)

\* per row and bin (from 1): the centre, the width, and whether the width
\* is the exact difference of the two boundaries
BinsOf(o) ==
  [i \in 1..Len(o.binb) |->
     [k \in 1..(Len(o.binb[i]) - 1) |->
        [c  |-> Center(o.binb[i][k + 1], o.binb[i][k]),
         w  |-> Width(o.binb[i][k + 1], o.binb[i][k]),
         ex |-> ExactAdd(o.binb[i][k + 1], DNeg(o.binb[i][k]))]] \o <<>>] \o <<>>

\* binb.size() - 1 of an empty row is the largest unsigned value: the loop
\* reads binb[1] past the end
PastEnd(row) == Len(row) = 0

\* the summation ran into undefined behaviour
Crashed(acc) == [acc EXCEPT !.crash = TRUE]

\* xvec(...): the centres of the bins bs of the nest (outermost first) are
\* written to the first coordinates of the buffer x, the rest is left
xvec(x, bs) ==
  [i \in 1..Len(x) |-> IF i <= Len(bs) THEN bs[i].c ELSE x[i]] \o <<>>

\* p * (x1hi-x1lo) * (x2hi-x2lo) * ... from the width of bs[i] on, left to
\* right; ex: no width and no product so far was rounded
RECURSIVE Times(_, _, _)
Times(p, bs, i) ==
  IF i > Len(bs) THEN p
  ELSE Times([v  |-> DMul(p.v, bs[i].w),
              ex |-> p.ex /\ bs[i].ex /\ ExactMul(p.v, bs[i].w)], bs, i + 1)

\* integrand(xvec(...)) * (x1hi-x1lo) * ...
Term(fn, x, bs) == Times([v |-> Evaluate(fn, x), ex |-> TRUE], bs, 1)

\* sum += p, after the integrand was evaluated at the buffer x
Accumulate(acc, x, p) ==
  [sum   |-> DAdd(acc.sum, p.v),
   x     |-> x,
   evals |-> Append(acc.evals, x),
   exact |-> acc.exact /\ p.ex /\ ExactAdd(acc.sum, p.v),
   crash |-> FALSE]

\* the body of the innermost loop, the buffer being x
AddAt(fn, acc, bs, x) == Accumulate(acc, x, Term(fn, x, bs))

RECURSIVE Reverse(_)
Reverse(q) == IF q = <<>> THEN <<>> ELSE Append(Reverse(Tail(q)), Head(q))

\* a fault: the centres are handed to xvec in the reverse order
AddBinSwapped(fn, acc, bs) ==
  AddAt(fn, acc, Reverse(bs), xvec(acc.x, Reverse(bs)))

\* sum += integrand(xvec(...)) * w[1] * w[2] * ...; bs are the bins of the
\* nest, outermost first
AddBin(fn, acc, bs) == AddAt(fn, acc, bs, xvec(acc.x, bs))

(***************************************************************************)
(* for (ibin = 0; ibin < binb.size() - 1; ++ibin) ...: Range runs the      *)
(* iterations lo..hi-1 of the loop over the bins of dimension k-1 in a     *)
(* nest of depth nd, in order, by halves; bs are the bins the enclosing    *)
(* loops are at, b the centres and widths of all bins.  Loop is the whole  *)
(* loop of dimension k-1.                                                  *)
(***************************************************************************)
RECURSIVE Range(_, _, _, _, _, _, _, _, _)
Range(o, fn, nd, b, k, bs, lo, hi, acc) ==
  IF acc.crash \/ lo >= hi THEN acc
  ELSE IF hi - lo > 1
       THEN Range(o, fn, nd, b, k, bs, (lo + hi) \div 2, hi,
                  Range(o, fn, nd, b, k, bs, lo, (lo + hi) \div 2, acc))
  ELSE IF k = nd THEN AddBin(fn, acc, Append(bs, b[k][lo + 1]))
  ELSE IF PastEnd(o.binb[k + 1]) THEN Crashed(acc)
  ELSE Range(o, fn, nd, b, k + 1, Append(bs, b[k][lo + 1]),
             0, Len(o.binb[k + 1]) - 1, acc)

\* the loop nest of depth nd
Loop(o, fn, nd, acc) ==
  IF PastEnd(o.binb[1]) THEN Crashed(acc)
  ELSE Range(o, fn, nd, BinsOf(o), 1, <<>>, 0, Len(o.binb[1]) - 1, acc)

\* if (_function->getDimension() == 1)
Is1D(d) == d = 1

\* if (_function->getDimension()==2)
Is2D(d) == d = 2

\* a fault: the last block is taken for every dimension from 3 on
Is3DOrMore(d) == d >= 3

\* if (_function->getDimension()==3)
Is3D(d) == d = 3

\* the condition of block nd of integral()
BlockTaken(nd, d) ==
  IF nd = 1 THEN Is1D(d) ELSE IF nd = 2 THEN Is2D(d) ELSE Is3D(d)

\* the blocks nd, nd+1, ..., 3 of integral(), one after the other
RECURSIVE Blocks(_, _, _, _)
Blocks(o, fn, nd, acc) ==
  IF nd > 3 \/ acc.crash THEN acc
  ELSE Blocks(o, fn, nd + 1,
              IF BlockTaken(nd, getDimension(fn)) THEN Loop(o, fn, nd, acc) ELSE acc)

\* double sum = 0. ; and the state of the call before the first block
Start(o) ==
  [sum |-> InitialSum(o), x |-> o.x, evals |-> <<>>, exact |-> TRUE,
   crash |-> FALSE]

\* integral(): assert(isValid()), then the three blocks, each with its nest
Integral(o, fn) ==
  IF ~isValid(o) THEN Crashed(Start(o)) ELSE Blocks(o, fn, 1, Start(o))


(***************************************************************************)
(* The state: the integrand, the prototype registerIntegrator stored with  *)
(* the factory at startup, the integrator under test, and what the last    *)
(* call did.  The factory makes integrators by clone, which is the caller  *)
(* of RooBinIntegrator(function, config).                                  *)
(***************************************************************************)
VARIABLES
  fn,         \* the integrand
  proto,      \* the prototype integrator of registerIntegrator
  self,       \* the integrator bound to fn
  origin,     \* "ctor" or "clone": how self was made ("none": not yet)
  crashed,    \* a call failed an assert or its behaviour was undefined:
              \* nothing is said of what follows
  op,         \* the last call
  tgt,        \* the object of the last call: "self" or "proto"
  args,       \* the arguments of the last setLimits
  retB,       \* what the last checkLimits or setLimits returned
  last,       \* what the last integral() returned since the limits changed,
              \* and whether it was not the first one since then
  evals,      \* the coordinates the last integral() evaluated, in order
  exact,      \* the last integral() rounded no width, product or sum
  diag,       \* the diagnostics of the last call
  lastCheck,  \* what the last checkLimits() of self returned
  moves       \* how often the integrand's limits changed

vars == <<fn, proto, self, origin, crashed, op, tgt, args, retB, last, evals,
          exact, diag, lastCheck, moves>>

NoResult == [has |-> FALSE, again |-> FALSE, val |-> Zero]

NoArgs == <<Zero, Zero>>

\* the integrands the default bin count is used with: the others would make
\* one integral() evaluate the integrand 10^4 times or more
Ctor1Integrands ==
  {f \in Integrands : f.dim \in {2, 3} => \A i \in 1..f.dim : f.ax[i].has}

\* registerIntegrator: the prototype is made by the default constructor
RegisterIntegrator == DefaultCtor

Init ==
  /\ fn \in Integrands
  /\ proto = RegisterIntegrator
  /\ self = NoObject
  /\ origin = "none"
  /\ crashed = FALSE
  /\ op = "init"
  /\ tgt = "none"
  /\ args = NoArgs
  /\ retB = FALSE
  /\ last = NoResult
  /\ evals = <<>>
  /\ exact = TRUE
  /\ diag = <<>>
  /\ lastCheck = "none"
  /\ moves = 0

BoolStr(b) == IF b THEN "true" ELSE "false"

Object(t) == IF t = "proto" THEN proto ELSE self

\* the objects of the calls: the prototype is called only before an
\* integrator is made of it (every call on it ends the process)
Targets == IF self.exists THEN {"self"} ELSE {"proto"}

\* self becomes the object a constructor call made
Constructed(r, how, name) ==
  /\ self' = r.o
  /\ origin' = how
  /\ crashed' = r.crash
  /\ op' = name
  /\ tgt' = "self"
  /\ args' = NoArgs
  /\ retB' = FALSE
  /\ last' = NoResult
  /\ evals' = <<>>
  /\ exact' = TRUE
  /\ diag' = r.diag
  /\ lastCheck' = BoolStr(r.ret)
  /\ UNCHANGED <<fn, proto, moves>>

Construct ==
  /\ ~crashed
  /\ ~self.exists
  /\ fn \in Ctor1Integrands
  /\ \E r \in {Ctor1(fn)} : Constructed(r, "ctor", "ctor1")

CloneProto ==
  /\ ~crashed
  /\ ~self.exists
  /\ proto.exists
  /\ \E n \in ConfigNumBins :
       \E r \in {Clone(proto, fn, n)} : Constructed(r, "clone", "clone")

\* the object t after a call that left it as o
Stored(t, o) ==
  /\ self' = IF t = "self" THEN o ELSE self
  /\ proto' = IF t = "proto" THEN o ELSE proto

DoCheckLimits ==
  /\ ~crashed
  /\ \E t \in Targets :
       /\ \E r \in {CheckLimits(Object(t), fn)} :
              /\ Stored(t, r.o)
              /\ crashed' = r.crash
              /\ retB' = r.ret
              /\ diag' = r.diag
              /\ lastCheck' = IF t = "self" /\ ~r.crash THEN BoolStr(r.ret)
                              ELSE lastCheck
       /\ tgt' = t
  /\ op' = "checkLimits"
  /\ args' = NoArgs
  /\ evals' = <<>>
  /\ exact' = TRUE
  /\ UNCHANGED <<fn, origin, last, moves>>

DoSetLimits ==
  /\ ~crashed
  /\ \E t \in Targets, a \in LimitArgs :
       /\ \E r \in {SetLimits(Object(t), fn, a[1], a[2])} :
              /\ Stored(t, r.o)
              /\ crashed' = r.crash
              /\ retB' = r.ret
              /\ diag' = r.diag
              /\ lastCheck' = IF t = "self" /\ ~r.crash /\ ~Object(t).useIntegrandLimits
                              THEN BoolStr(r.ret) ELSE lastCheck
       /\ tgt' = t
       /\ args' = a
  /\ op' = "setLimits"
  /\ evals' = <<>>
  /\ exact' = TRUE
  /\ UNCHANGED <<fn, origin, last, moves>>

DoIntegral ==
  /\ ~crashed
  /\ \E t \in Targets :
       /\ \E r \in {Integral(Object(t), fn)} :
              /\ Stored(t, [Object(t) EXCEPT !.x = r.x])
              /\ crashed' = r.crash
              /\ last' = IF r.crash \/ t # "self" THEN last
                         ELSE [has |-> TRUE, again |-> last.has, val |-> r.sum]
              /\ evals' = r.evals
              /\ exact' = r.exact
       /\ tgt' = t
  /\ op' = "integral"
  /\ args' = NoArgs
  /\ retB' = FALSE
  /\ diag' = <<>>
  /\ UNCHANGED <<fn, origin, lastCheck, moves>>

\* the dimensions of the integrand without a binning of its own
Unbinned(f) == {i \in 1..getDimension(f) : ~f.ax[i].has}

\* the limits of the integrand change, in its first dimension without a
\* binning of its own
ChangeLimits ==
  /\ ~crashed
  /\ self.exists
  /\ moves < MaxMoves
  /\ \E i \in Unbinned(fn), p \in ChangePairs :
       /\ \A j \in Unbinned(fn) : i <= j
       /\ <<fn.ax[i].min, fn.ax[i].max>> # p
       /\ fn' = [fn EXCEPT !.ax[i].min = p[1], !.ax[i].max = p[2]]
  /\ moves' = moves + 1
  /\ op' = "move"
  /\ tgt' = "none"
  /\ args' = NoArgs
  /\ retB' = FALSE
  /\ last' = NoResult
  /\ evals' = <<>>
  /\ exact' = TRUE
  /\ diag' = <<>>
  /\ UNCHANGED <<proto, self, origin, crashed, lastCheck>>

Next ==
  \/ Construct
  \/ CloneProto
  \/ DoCheckLimits
  \/ DoSetLimits
  \/ DoIntegral
  \/ ChangeLimits

Spec == Init /\ [][Next]_vars


(***************************************************************************)
(* The properties.  Real numbers are the exact values XAdd and XMul        *)
(* compute; they are compared with DLe.                                    *)
(***************************************************************************)
Last(q) == q[Len(q)]

\* |x| for a finite x
Abs(x) == IF x.s < 0 THEN DNeg(x) ELSE x

\* 2^e
TwoTo(e) == [k |-> "fin", s |-> 1, m |-> <<1>>, e |-> e]

\* |x - y| <= n * 2^e * z, for finite values
Within(x, y, n, e, z) ==
  DLe(Abs(XAdd(x, DNeg(y))), XMul(XMul(D(n), TwoTo(e)), z))

\* the last call was integral() on the integrator, and it returned
Integrated == self.exists /\ ~crashed /\ op = "integral" /\ tgt = "self"

\* the limits of dimension i of the integrand are finite
FiniteLimits(i) == Finite(getMinLimit(fn, i)) /\ Finite(getMaxLimit(fn, i))

\* checkLimits() refuses the limits of the integrand
BadDomain ==
  \E i \in 1..getDimension(fn) :
    \/ DLe(getMaxLimit(fn, i), getMinLimit(fn, i))
    \/ isInfinite(getMinLimit(fn, i))
    \/ isInfinite(getMaxLimit(fn, i))

StrictlyIncreasing(row) ==
  \A k \in 1..(Len(row) - 1) : DLt(row[k], row[k + 1])

\* row i of the bin table is strictly increasing from minLimit(i) to maxLimit(i)
Spans(i) ==
  /\ FiniteLimits(i)
  /\ Len(self.binb[i]) >= 2
  /\ StrictlyIncreasing(self.binb[i])
  /\ self.binb[i][1] = getMinLimit(fn, i)
  /\ Last(self.binb[i]) = getMaxLimit(fn, i)

\* the real number v * (maxLimit(i) - minLimit(i)) * ... over the dimensions from i on
RECURSIVE ExactVolume(_, _)
ExactVolume(v, i) ==
  IF i > getDimension(fn) THEN v
  ELSE ExactVolume(XMul(v, XAdd(getMaxLimit(fn, i), DNeg(getMinLimit(fn, i)))), i + 1)

\* the double v * (maxLimit(i) - minLimit(i)) * ... over the dimensions from i on
RECURSIVE DoubleVolume(_, _)
DoubleVolume(v, i) ==
  IF i > getDimension(fn) THEN v
  ELSE DoubleVolume(DMul(v, DSub(getMaxLimit(fn, i), getMinLimit(fn, i))), i + 1)

\* integral() returned from a constant integrand of dimension 1, 2 or 3 whose
\* rows are strictly increasing from the minimum to the maximum
C1Case ==
  /\ Integrated
  /\ fn.f.kind = "const"
  /\ getDimension(fn) \in {1, 2, 3}
  /\ \A i \in 1..getDimension(fn) : Spans(i)

\* C1, as the claim states it: for a constant integrand c over rows strictly
\* increasing from minLimit to maxLimit, integral() returns exactly
\* c * prod(maxLimit(i) - minLimit(i)): the product as a real number rounded
\* to a double, or the product computed in doubles
C1Exactly ==
  C1Case => \/ last.val = Round(ExactVolume(D(fn.f.c), 1))
            \/ last.val = DoubleVolume(D(fn.f.c), 1)

\* C1, amended: integral() returns c * prod(maxLimit(i) - minLimit(i)) with a
\* relative error of at most (N + 2d) * 2^-53, N the number of evaluations
\* and d the dimension; it returns the product exactly when no bin width, no
\* product and no partial sum is rounded
C1WithinRounding ==
  C1Case =>
    /\ Finite(last.val)
    /\ Within(last.val, ExactVolume(D(fn.f.c), 1),
              Len(evals) + 2 * getDimension(fn), -MantBits,
              Abs(ExactVolume(D(fn.f.c), 1)))
    /\ exact => last.val = ExactVolume(D(fn.f.c), 1)

\* C1: three dimensions, one of them with synthesized boundaries, and no
\* operation of the summation was rounded
C1Witness ==
  /\ C1Case
  /\ exact
  /\ getDimension(fn) = 3
  /\ Unbinned(fn) # {}
  /\ last.val = ExactVolume(D(fn.f.c), 1)

\* C2: a row of the bin table of a dimension the integrand has boundaries
\* for is the list of these boundaries, whatever numBins is and whichever
\* constructor made the integrator; the boundaries 0, 1, 3, 7 make three
\* bins of the widths 1, 2, 4 and integral() evaluates at 0.5, 2 and 5 only
C2ExplicitBoundaries ==
  /\ self.exists =>
       \A i \in 1..getDimension(fn) :
         fn.ax[i].has => self.binb[i] = fn.ax[i].b
  /\ (Integrated /\ getDimension(fn) = 1 /\ fn.ax[1] = AxisExplicit) =>
       /\ evals = << <<DDivInt(D(1), 2)>>, <<D(2)>>, <<D(5)>> >>
       /\ [k \in 1..(Len(self.binb[1]) - 1) |->
             DSub(self.binb[1][k + 1], self.binb[1][k])] = <<D(1), D(2), D(4)>>

\* C2: the integrator made by clone with numBins = 0 integrated over the
\* three bins of 0, 1, 3, 7
C2Witness ==
  /\ Integrated
  /\ origin = "clone"
  /\ self.numBins = 0
  /\ getDimension(fn) = 1
  /\ fn.ax[1] = AxisExplicit
  /\ Len(evals) = 3
  /\ last.val = D(49)

\* the value the claim gives boundary j (from 0) of n bins between lo and hi
Boundary(lo, hi, n, j) == DAdd(lo, DDivInt(DMul(D(j), DSub(hi, lo)), n))

C4Refused ==
  (self.exists /\ ~crashed /\ BadDomain) =>
    /\ op = "checkLimits" => ~retB
    /\ (op \in {"ctor1", "clone"}) => lastCheck = "false"
    /\ op = "integral" => (evals = <<>> /\ ~last.has)

\* C5: setLimits on an integrator that uses the limits of the integrand
\* returns false and leaves xmin, xmax, the bin table, numBins and the flag
\* (the whole object) as they were, whatever the arguments
C5Rejected ==
  [][(op' = "setLimits" /\ tgt' = "self" /\ self.exists /\ self.useIntegrandLimits)
       => (~crashed' /\ retB' = FALSE /\ self' = self)]_vars

\* C5: setLimits(0, 1) was rejected on an integrator whose lower limit is 1
C5Witness ==
  /\ self.exists
  /\ ~crashed
  /\ op = "setLimits"
  /\ tgt = "self"
  /\ self.useIntegrandLimits
  /\ args = <<D(0), D(1)>>
  /\ getDimension(fn) >= 1
  /\ self.xmin[1] = D(1)
  /\ ~retB
  /\ diag = <<Err(0)>>

\* every dimension of the object has finite limits with max > min
LimitsValid(o) ==
  \A i \in 1..Len(o.xmin) :
    /\ Finite(o.xmin[i])
    /\ Finite(o.xmax[i])
    /\ DLt(o.xmin[i], o.xmax[i])

\* C6, as the claim states it: construction and clone give an integrator that
\* takes its limits from outside: setLimits(newMin, newMax) on it sets the
\* bounds of dimension 0 to newMin and newMax and returns whether every
\* dimension has finite bounds with max > min
C6Overrides ==
  (self.exists /\ ~crashed /\ op = "setLimits" /\ tgt = "self"
     /\ getDimension(fn) >= 1) =>
    /\ self.xmin[1] = args[1]
    /\ self.xmax[1] = args[2]
    /\ retB = LimitsValid(self)

\* C7: integral() changes nothing of the integrator but the coordinate
\* buffer, and returns what the last integral() returned since the limits
\* of the integrand changed, whatever checkLimits and setLimits calls came
\* between the two
C7Repeatable ==
  [][(op' = "integral" /\ tgt' = "self" /\ self.exists /\ ~crashed')
       => /\ self' = [self EXCEPT !.x = self'.x]
          /\ last.has => last'.val = last.val]_vars

\* C7: a second integral() of the sum of two coordinates returned
C7Witness ==
  /\ Integrated
  /\ last.again
  /\ fn.f.kind = "sum"
  /\ getDimension(fn) = 2
  /\ Len(evals) > 1
  /\ Finite(last.val)
  /\ ~IsZero(last.val)

\* C8: in a dimension other than 1, 2 and 3 integral() returns 0, evaluates
\* nothing and reports nothing
C8SilentZero ==
  (Integrated /\ getDimension(fn) \notin {1, 2, 3}) =>
    /\ last.has
    /\ last.val = Zero
    /\ evals = <<>>
    /\ diag = <<>>

\* C8: integral() returned from an integrand of dimension 4
C8Witness ==
  /\ Integrated
  /\ getDimension(fn) = 4
  /\ isValid(self)
  /\ last.has
  /\ last.val = Zero

\* the number of bins of dimension i
NumBinsOf(i) == Len(self.binb[i]) - 1

\* the number of combinations of one bin of each dimension from i on
RECURSIVE Combinations(_)
Combinations(i) ==
  IF i > getDimension(fn) THEN 1 ELSE NumBinsOf(i) * Combinations(i + 1)

\* (boundary[k] + boundary[k+1])/2 in dimension i, k from 1
Midpoint(i, k) == DDivInt(DAdd(self.binb[i][k], self.binb[i][k + 1]), 2)

\* the midpoints of combination p (from 0) in the lexicographic order of the
\* bin indices, the index of the first dimension the slowest
MidpointsOf(p) ==
  [i \in 1..getDimension(fn) |->
     Midpoint(i, ((p \div Combinations(i + 1)) % NumBinsOf(i)) + 1)]

\* C9: in dimension 1, 2 or 3 integral() evaluates the integrand once for
\* every combination of one bin per dimension, at the midpoints of the
\* bins, in the lexicographic order of the bin indices with the first
\* dimension outermost, and nowhere else
C9Evaluations ==
  (Integrated /\ getDimension(fn) \in {1, 2, 3}) =>
    /\ Len(evals) = Combinations(1)
    /\ \A p \in 1..Len(evals) : evals[p] = MidpointsOf(p - 1)

\* C9: three dimensions with 3, 2 and 2 bins, twelve evaluations
C9Witness ==
  /\ Integrated
  /\ getDimension(fn) = 3
  /\ NumBinsOf(1) = 3
  /\ NumBinsOf(2) = 2
  /\ NumBinsOf(3) = 2
  /\ Len(evals) = 12

\* C10: no call changes the bin table of the integrator; checkLimits() on an
\* integrator that uses the limits of the integrand stores the current
\* limits of the integrand as xmin and xmax and returns whether they are
\* valid
C10BinsKept ==
  [][self.exists =>
       /\ self'.binb = self.binb
       /\ (op' = "checkLimits" /\ tgt' = "self" /\ ~crashed'
             /\ self.useIntegrandLimits) =>
            /\ self'.xmin = [i \in 1..getDimension(fn) |-> getMinLimit(fn, i)]
            /\ self'.xmax = [i \in 1..getDimension(fn) |-> getMaxLimit(fn, i)]
            /\ retB' = ~BadDomain]_vars

\* C10: after the limits of the integrand changed, checkLimits() returned
\* true and integral() summed over bins that end elsewhere than xmax
C10Witness ==
  /\ Integrated
  /\ moves >= 1
  /\ lastCheck = "true"
  /\ evals # <<>>
  /\ \E i \in Unbinned(fn) :
       /\ self.xmax[i] = getMaxLimit(fn, i)
       /\ StrictlyIncreasing(self.binb[i])
       /\ DLt(Last(self.binb[i]), self.xmax[i])

====
